---- MODULE Spec2Model ----
(***************************************************************************)
(* Model of procrastinate/retry.py: the retry strategies that decide, when *)
(* a job fails, whether it runs again and when.                            *)
(*                                                                         *)
(* Seconds and timestamps are whole numbers: every wait term is drawn from *)
(* 0..MaxWait, on which Python's float arithmetic is exact.                 *)
(***************************************************************************)
EXTENDS Integers, Sequences, FiniteSets, TLC

\* Largest value of each wait term (wait, linear_wait, exponential_wait).
MaxWait == 3
\* Largest attempts count passed to a strategy, and largest max_attempts.
MaxAttempts == 4

\* Python's None, apart from every number and every heap identity (all are
\* non-negative).
None == -1
\* The task's retry value has not been resolved yet.
Unresolved == -2

VARIABLES
    heap,            \* the RetryStrategy instances that exist, by identity
    retry,           \* the RetryValue the task was declared with
    retry_strategy,  \* get_retry_strategy(retry): None or a heap identity
    job,             \* the job of the task: status, attempts, scheduled_at
    executions,      \* how many times the job has been executed
    now,             \* pendulum.now("UTC"), in seconds
    last             \* the last direct call of a strategy method

vars == <<heap, retry, retry_strategy, job, executions, now, last>>

-----------------------------------------------------------------------------
(* RetryStrategy: an attr dataclass of four fields.                        *)

RetryStrategy(max_attempts, wait, linear_wait, exponential_wait) ==
    [max_attempts |-> max_attempts, wait |-> wait,
     linear_wait |-> linear_wait, exponential_wait |-> exponential_wait]

\* The field defaults: RetryStrategy().
DefaultMaxAttempts == None
DefaultWait == 0
DefaultLinearWait == 0
DefaultExponentialWait == 0

DefaultRetryStrategy ==
    RetryStrategy(DefaultMaxAttempts, DefaultWait, DefaultLinearWait,
                  DefaultExponentialWait)

\* The strategies a caller can construct within the bounds.
Strategies ==
    { RetryStrategy(m, w, l, e) :
        m \in {None} \cup (0..MaxAttempts),
        w \in 0..MaxWait, l \in 0..MaxWait, e \in 0..MaxWait }

\* Python's ** on a float base and a non-negative int exponent: x ** 0 is
\* 1.0 for every x, 0.0 included.
\* Mutant: the exponential term as a product.
float_pow_product(base, exponent) == base * exponent

RECURSIVE float_pow(_, _)
float_pow(base, exponent) ==
    IF exponent = 0 THEN 1 ELSE base * float_pow(base, exponent - 1)

\* Truth value of an Optional[int]: None and 0 are falsy.
IsTruthyInt(v) == v # None /\ v # 0

\* Mutant: the limit compared with > instead of >=.
get_schedule_in_strict(self, attempts) ==
    IF IsTruthyInt(self.max_attempts) /\ attempts > self.max_attempts
    THEN None
    ELSE self.wait + self.linear_wait * attempts
         + float_pow(self.exponential_wait, attempts)

\* Mutant: the limit counts the execution in progress as an attempt.
get_schedule_in_counting_current(self, attempts) ==
    IF IsTruthyInt(self.max_attempts) /\ attempts + 1 >= self.max_attempts
    THEN None
    ELSE self.wait + self.linear_wait * attempts
         + float_pow(self.exponential_wait, attempts)

\* Mutant: the linear term is not multiplied by attempts.
get_schedule_in_flat_linear(self, attempts) ==
    IF IsTruthyInt(self.max_attempts) /\ attempts >= self.max_attempts
    THEN None
    ELSE self.wait + self.linear_wait
         + float_pow(self.exponential_wait, attempts)

\* Mutant: the limit tested with `is not None` instead of its truth value.
get_schedule_in_is_not_none(self, attempts) ==
    IF self.max_attempts # None /\ attempts >= self.max_attempts
    THEN None
    ELSE self.wait + self.linear_wait * attempts
         + float_pow(self.exponential_wait, attempts)

get_schedule_in(self, attempts) ==
    IF IsTruthyInt(self.max_attempts) /\ attempts >= self.max_attempts
    THEN None
    ELSE LET wait0 == self.wait
             wait1 == wait0 + self.linear_wait * attempts
             wait2 == wait1 + float_pow(self.exponential_wait, attempts)
         IN  wait2

\* Mutant: the delay is returned without adding the current time.
get_retry_exception_relative(self, attempts, utcnow) ==
    LET schedule_in == get_schedule_in(self, attempts)
    IN  IF schedule_in = None
        THEN None
        ELSE schedule_in

\* BaseRetryStrategy.get_retry_exception: the JobRetry is modelled by its
\* scheduled_at timestamp.
get_retry_exception(self, attempts, utcnow) ==
    LET schedule_in == get_schedule_in(self, attempts)
    IN  IF schedule_in = None
        THEN None
        ELSE utcnow + schedule_in

-----------------------------------------------------------------------------
(* RetryValue = Union[bool, int, RetryStrategy], as a tagged value.  A      *)
(* strategy value is the identity of an instance on the heap.              *)

\* bool is a subclass of int: False == 0 and True == 1.
BoolValue(b) == [tag |-> "bool", val |-> IF b THEN 1 ELSE 0]
IntValue(n) == [tag |-> "int", val |-> n]
StrategyValue(ref) == [tag |-> "strategy", val |-> ref]

\* `not retry`: False and 0 are falsy; a RetryStrategy instance defines
\* neither __bool__ nor __len__ and is always truthy.
IsFalsy(value) ==
    CASE value.tag = "bool" -> value.val = 0
      [] value.tag = "int" -> value.val = 0
      [] value.tag = "strategy" -> FALSE

\* Mutant: `retry == True` instead of `retry is True`, which 1 satisfies too.
get_retry_strategy_equals_true(value, h) ==
    IF IsFalsy(value)
    THEN [result |-> None, heap |-> h]
    ELSE IF value.tag \in {"bool", "int"} /\ value.val = 1
    THEN [result |-> Len(h) + 1, heap |-> Append(h, DefaultRetryStrategy)]
    ELSE IF value.tag \in {"bool", "int"}
    THEN [result |-> Len(h) + 1,
          heap |-> Append(h, RetryStrategy(value.val, DefaultWait,
                                  DefaultLinearWait, DefaultExponentialWait))]
    ELSE [result |-> value.val, heap |-> h]

\* get_retry_strategy on the heap h: the returned value (None or the
\* identity of a strategy) and the heap after the call.
get_retry_strategy(value, h) ==
    IF IsFalsy(value)
    THEN [result |-> None, heap |-> h]
    ELSE IF value.tag = "bool" /\ value.val = 1
    THEN [result |-> Len(h) + 1, heap |-> Append(h, DefaultRetryStrategy)]
    ELSE IF value.tag \in {"bool", "int"}
    THEN [result |-> Len(h) + 1,
          heap |-> Append(h, RetryStrategy(value.val, DefaultWait,
                                  DefaultLinearWait, DefaultExponentialWait))]
    ELSE [result |-> value.val, heap |-> h]

-----------------------------------------------------------------------------
(* The job of the task, as the worker handles it.                          *)

NewJob == [status |-> "todo", attempts |-> 0, scheduled_at |-> 0]

NoCall == [op |-> "none"]

\* A task is declared with a retry value: a bool, an int, or a strategy
\* instance the caller constructed.
Init ==
    /\ \/ /\ heap = <<>>
          /\ \E b \in BOOLEAN : retry = BoolValue(b)
       \/ /\ heap = <<>>
          /\ \E n \in 0..MaxAttempts : retry = IntValue(n)
       \/ \E s \in Strategies :
            /\ heap = <<s>>
            /\ retry = StrategyValue(1)
    /\ retry_strategy = Unresolved
    /\ job = NewJob
    /\ executions = 0
    /\ now = 0
    /\ last = NoCall

\* Task.__init__ resolves the retry value once.
Resolve ==
    /\ retry_strategy = Unresolved
    /\ LET r == get_retry_strategy(retry, heap)
       IN  /\ retry_strategy' = r.result
           /\ heap' = r.heap
    /\ UNCHANGED <<retry, job, executions, now, last>>

\* A direct call of strategy.get_schedule_in(attempts).
CallGetScheduleIn ==
    /\ retry_strategy \notin {Unresolved, None}
    /\ \E attempts \in 0..MaxAttempts :
         last' = [op |-> "get_schedule_in",
                  self |-> retry_strategy,
                  attempts |-> attempts,
                  result |-> get_schedule_in(heap[retry_strategy], attempts)]
    /\ UNCHANGED <<heap, retry, retry_strategy, job, executions, now>>

\* A direct call of strategy.get_retry_exception(attempts) at time now.
CallGetRetryException ==
    /\ retry_strategy \notin {Unresolved, None}
    /\ \E attempts \in 0..MaxAttempts :
         last' = [op |-> "get_retry_exception",
                  self |-> retry_strategy,
                  attempts |-> attempts,
                  now |-> now,
                  result |-> get_retry_exception(heap[retry_strategy],
                                                 attempts, now)]
    /\ UNCHANGED <<heap, retry, retry_strategy, job, executions, now>>

\* The worker fetches the job once it is due and starts executing it.
FetchJob ==
    /\ retry_strategy # Unresolved
    /\ job.status = "todo"
    /\ job.attempts <= MaxAttempts
    /\ now' = IF job.scheduled_at > now THEN job.scheduled_at ELSE now
    /\ job' = [job EXCEPT !.status = "doing"]
    /\ executions' = executions + 1
    /\ UNCHANGED <<heap, retry, retry_strategy, last>>

\* The execution fails: the worker asks the strategy for a retry with the
\* current attempts; a retry is enqueued with attempts + 1, otherwise the
\* job is marked permanently failed.
JobFails ==
    /\ job.status = "doing"
    /\ LET exc == IF retry_strategy = None
                  THEN None
                  ELSE get_retry_exception(heap[retry_strategy],
                                           job.attempts, now)
       IN  job' = IF exc = None
                  THEN [job EXCEPT !.status = "failed"]
                  ELSE [status |-> "todo", attempts |-> job.attempts + 1,
                        scheduled_at |-> exc]
    /\ UNCHANGED <<heap, retry, retry_strategy, executions, now, last>>

Next ==
    \/ Resolve
    \/ CallGetScheduleIn
    \/ CallGetRetryException
    \/ FetchJob
    \/ JobFails

Spec == Init /\ [][Next]_vars

\* The worker keeps running: a due job is fetched, and a failure handled.
LiveSpec == Spec /\ WF_vars(FetchJob) /\ WF_vars(JobFails)

TypeOK ==
    /\ retry_strategy \in {Unresolved, None} \cup (1..Len(heap))
    /\ job.status \in {"todo", "doing", "failed"}
    /\ job.attempts \in 0..(MaxAttempts + 1)
    /\ executions \in 0..(MaxAttempts + 1)
    /\ now \in Nat

-----------------------------------------------------------------------------
(* Properties of get_schedule_in, stated on the last direct call.          *)

\* The instance the last direct call was made on.
LastSelf == heap[last.self]

\* A strategy with only the given wait terms set and no max_attempts.
OnlyWaits(wait, linear_wait, exponential_wait) ==
    RetryStrategy(None, wait, linear_wait, exponential_wait)

\* C1: with max_attempts a positive integer n, get_schedule_in(attempts)
\* returns None if and only if attempts >= n, and a number for every
\* attempts < n; with max_attempts unset it never returns None.
C1_NoneIffAttemptsReachMax ==
    last.op = "get_schedule_in" =>
        LET n == LastSelf.max_attempts
        IN  /\ (n # None /\ n > 0) =>
                /\ (last.result = None) <=> (last.attempts >= n)
                /\ (last.attempts < n) => (last.result \in Nat)
            /\ (n = None) => (last.result # None /\ last.result \in Nat)

C1_Witness ==
    /\ last.op = "get_schedule_in"
    /\ LastSelf.max_attempts = 3
    /\ last.attempts = 3
    /\ last.result = None

\* C3: a default-constructed RetryStrategy returns a delay of exactly 0 for
\* every attempts >= 0, attempts = 0 included.
C3_DefaultDelayIsZero ==
    (last.op = "get_schedule_in" /\ LastSelf = DefaultRetryStrategy) =>
        last.result = 0

C5_ConstantWaitIsThree ==
    (last.op = "get_schedule_in" /\ LastSelf = OnlyWaits(3, 0, 0)) =>
        last.result = 3

\* C6: with only linear_wait = 3 set, get_schedule_in(attempts) equals
\* 3 * attempts for every attempts >= 0.
C6_LinearWaitIsThreeTimesAttempts ==
    (last.op = "get_schedule_in" /\ LastSelf = OnlyWaits(0, 3, 0)) =>
        last.result = 3 * last.attempts

\* C7: with only exponential_wait = 3 set, get_schedule_in(attempts) equals
\* 3 ** attempts: 1, 3, 9, 27, 81 for attempts 0..4.
C7_ExponentialWaitIsPowerOfThree ==
    (last.op = "get_schedule_in" /\ LastSelf = OnlyWaits(0, 0, 3)) =>
        /\ last.attempts <= 4 =>
               last.result = <<1, 3, 9, 27, 81>>[last.attempts + 1]
        /\ last.attempts >= 1 => last.result = 3 ^ last.attempts

C7_Witness ==
    /\ last.op = "get_schedule_in"
    /\ LastSelf = OnlyWaits(0, 0, 3)
    /\ last.attempts = 4
    /\ last.result = 81

-----------------------------------------------------------------------------
(* Properties of get_retry_strategy and get_retry_exception.               *)

\* C8: get_retry_strategy always returns, and maps False and 0 to None, True
\* to a new strategy with max_attempts unset and zero waits, a positive
\* integer n to a new strategy with max_attempts = n and zero waits, and a
\* strategy instance to that same instance with its fields unchanged.
C8_ResolveMapping ==
    [][ (retry_strategy = Unresolved /\ retry_strategy' # Unresolved) =>
          /\ (retry.tag = "bool" /\ retry.val = 0) => retry_strategy' = None
          /\ (retry.tag = "int" /\ retry.val = 0) => retry_strategy' = None
          /\ (retry.tag = "bool" /\ retry.val = 1) =>
                /\ retry_strategy' \in 1..Len(heap')
                /\ heap'[retry_strategy'] = RetryStrategy(None, 0, 0, 0)
          /\ (retry.tag = "int" /\ retry.val > 0) =>
                /\ retry_strategy' \in 1..Len(heap')
                /\ heap'[retry_strategy'] = RetryStrategy(retry.val, 0, 0, 0)
          /\ (retry.tag = "strategy") =>
                /\ retry_strategy' = retry.val
                /\ heap' = heap
      ]_vars

C8_Witness ==
    /\ retry = IntValue(1)
    /\ retry_strategy \in 1..Len(heap)
    /\ heap[retry_strategy].max_attempts = 1

\* C9: get_retry_exception(attempts) returns None exactly when
\* get_schedule_in(attempts) returns None, and otherwise a retry scheduled
\* at the current UTC time plus get_schedule_in(attempts) seconds, never
\* earlier than now.
C9_RetryAtNowPlusDelay ==
    last.op = "get_retry_exception" =>
        LET schedule_in == get_schedule_in(LastSelf, last.attempts)
        IN  /\ (last.result = None) <=> (schedule_in = None)
            /\ (last.result # None) =>
                   /\ last.result = last.now + schedule_in
                   /\ last.result >= last.now

C9_Witness ==
    /\ last.op = "get_retry_exception"
    /\ last.now > 0
    /\ last.result # None
    /\ last.result > last.now

\* C10: a RetryStrategy constructed with max_attempts = 0 behaves as one with
\* max_attempts unset: get_schedule_in never returns None, so the worker
\* never marks an always-failing job permanently failed; get_retry_strategy(0)
\* instead yields no strategy, and the job fails without any retry.
C10_ZeroMaxAttemptsIsUnlimited ==
    /\ (retry.tag = "strategy" /\ heap[retry.val].max_attempts = 0) =>
          /\ job.status # "failed"
          /\ last.op = "get_schedule_in" =>
                /\ last.result # None
                /\ last.result =
                     get_schedule_in(
                        [LastSelf EXCEPT !.max_attempts = None], last.attempts)
    /\ (retry = IntValue(0) /\ retry_strategy # Unresolved) =>
          /\ retry_strategy = None
          /\ job.attempts = 0

C10_Witness ==
    /\ retry.tag = "strategy"
    /\ heap[retry.val].max_attempts = 0
    /\ job.attempts = MaxAttempts + 1
    /\ last.op = "get_schedule_in"
    /\ last.attempts = MaxAttempts

-----------------------------------------------------------------------------
(* The worker protocol on a job that fails on every execution.             *)

\* The resolved strategy stops retrying after n attempts, n >= 1.
Limited == retry_strategy \in 1..Len(heap)
           /\ heap[retry_strategy].max_attempts # None
           /\ heap[retry_strategy].max_attempts >= 1

\* C2 (as claimed): under a strategy with max_attempts = n, an always-failing
\* job has been executed exactly n times when it is marked permanently failed.
C2_ExactlyMaxAttemptsExecutions ==
    (Limited /\ job.status = "failed") =>
        executions = heap[retry_strategy].max_attempts

\* C2 (amended): under a strategy with max_attempts = n, an always-failing
\* job is executed exactly n + 1 times in total, the first execution and n
\* retries, and then is eventually marked permanently failed.
C2_MaxAttemptsRetriesThenFailed ==
    /\ [](Limited =>
            /\ executions <= heap[retry_strategy].max_attempts + 1
            /\ job.status = "failed" =>
                  executions = heap[retry_strategy].max_attempts + 1)
    /\ (Limited ~> job.status = "failed")

C2_Witness ==
    /\ Limited
    /\ heap[retry_strategy].max_attempts = 3
    /\ job.status = "failed"
    /\ executions = 4
====
